---------------------------- MODULE Spec2Model ----------------------------
(***************************************************************************)
(* A model of src/src/objects-tasks.js: the Selector class with the        *)
(* cssSelectorBuilder facade, and sellTickets.                             *)
(*                                                                         *)
(* JavaScript strings are TLA+ strings ("" is the only falsy one), arrays  *)
(* are sequences, and an object reference is the index of the object in    *)
(* the sequence objs of all Selector objects allocated so far.             *)
(***************************************************************************)
EXTENDS Integers, Sequences, FiniteSets, TLC

VARIABLES
    objs,          \* every Selector object allocated so far, by reference
    hist,          \* history: per object, the part calls that returned normally
    called,        \* history: per object, which of element, id and pseudoElement
                   \* were called at least once (whether or not the call threw)
    chained,       \* history: the number of combine calls made on existing objects
    last,          \* the most recent call: what was called and how it ended
    queue,         \* sellTickets: the argument
    i,             \* sellTickets: the loop index (0-based, as in the source)
    twentyFives,   \* sellTickets: local
    fifties,       \* sellTickets: local
    ret            \* sellTickets: "idle", "running", or what it returned: "true", "false"

vars == <<objs, hist, called, chained, last, queue, i, twentyFives, fifties, ret>>
selectorVars == <<objs, hist, called, chained, last>>
ticketVars == <<queue, i, twentyFives, fifties, ret>>

---------------------------------------------------------------------------
(* Bounds of the model. *)

MaxParts == 3      \* SpecSimple: classes, attributes and pseudo-classes on the node
MaxSize == 4       \* Spec, SpecFacade: objects allocated plus calls that changed one
MaxQueue == 7      \* SpecTickets: longest queue

Values == {"", "a"}
Combinators == {" ", "+"}
Bills == {25, 50, 100}

---------------------------------------------------------------------------
(* class Selector *)

DuplicateSelectorPart ==
    "Element, id and pseudo-element should not occur more then one time inside the selector"
OutOfOrder ==
    "Selector parts should be arranged in the following order: element, id, class, attribute, pseudo-class, pseudo-element"
RangeError == "Maximum call stack size exceeded"

Parts == {"element", "id", "class", "attr", "pseudoClass", "pseudoElement"}
Singles == {"element", "id", "pseudoElement"}

\* constructor()
NewSelector ==
    [ elementValue       |-> "",
      idValue            |-> "",
      classValues        |-> <<>>,
      attrValues         |-> <<>>,
      pseudoClassValues  |-> <<>>,
      pseudoElementValue |-> "",
      combinator         |-> "",
      selectors          |-> <<>>,
      elementCount       |-> 0,
      idCount            |-> 0,
      pseudoElementCount |-> 0,
      hasElement         |-> FALSE,
      hasId              |-> FALSE,
      hasPseudoElement   |-> FALSE ]

\* How a method call ends: the object afterwards, and the error thrown ("" if
\* it returned this).
Throw(self, message) == [self |-> self, thrown |-> message]
ReturnThis(self) == [self |-> self, thrown |-> ""]

\* A faulty variant of element: the hasId test of the order check is missing.
element_skipsIdCheck(self, value) ==
    IF self.hasElement
    THEN Throw(self, DuplicateSelectorPart)
    ELSE IF \/ Len(self.classValues) # 0
            \/ Len(self.attrValues) # 0
            \/ Len(self.pseudoClassValues) # 0
            \/ self.hasPseudoElement
    THEN Throw(self, OutOfOrder)
    ELSE ReturnThis([self EXCEPT !.elementValue = value, !.hasElement = TRUE])

element(self, value) ==
    IF self.hasElement
    THEN Throw(self, DuplicateSelectorPart)
    ELSE IF \/ self.hasId
            \/ Len(self.classValues) # 0
            \/ Len(self.attrValues) # 0
            \/ Len(self.pseudoClassValues) # 0
            \/ self.hasPseudoElement
    THEN Throw(self, OutOfOrder)
    ELSE ReturnThis([self EXCEPT !.elementValue = value, !.hasElement = TRUE])

id(self, value) ==
    IF self.hasId
    THEN Throw(self, DuplicateSelectorPart)
    ELSE IF \/ Len(self.classValues) # 0
            \/ Len(self.attrValues) # 0
            \/ Len(self.pseudoClassValues) # 0
            \/ self.hasPseudoElement
    THEN Throw(self, OutOfOrder)
    ELSE ReturnThis([self EXCEPT !.idValue = value, !.hasId = TRUE])

\* A faulty variant of class: the value is pushed before the order check.
class_pushesFirst(self, value) ==
    LET pushed == [self EXCEPT !.classValues = Append(@, value)] IN
    IF \/ Len(self.attrValues) # 0
       \/ Len(self.pseudoClassValues) # 0
       \/ self.hasPseudoElement
    THEN Throw(pushed, OutOfOrder)
    ELSE ReturnThis(pushed)

class(self, value) ==
    IF \/ Len(self.attrValues) # 0
       \/ Len(self.pseudoClassValues) # 0
       \/ self.hasPseudoElement
    THEN Throw(self, OutOfOrder)
    ELSE ReturnThis([self EXCEPT !.classValues = Append(@, value)])

attr(self, value) ==
    IF Len(self.pseudoClassValues) # 0 \/ self.hasPseudoElement
    THEN Throw(self, OutOfOrder)
    ELSE ReturnThis([self EXCEPT !.attrValues = Append(@, value)])

pseudoClass(self, value) ==
    IF self.hasPseudoElement
    THEN Throw(self, OutOfOrder)
    ELSE ReturnThis([self EXCEPT !.pseudoClassValues = Append(@, value)])

\* A faulty variant of pseudoElement: no duplicate check, a second call overwrites.
pseudoElement_overwrites(self, value) ==
    ReturnThis([self EXCEPT !.pseudoElementValue = value,
                            !.hasPseudoElement = TRUE])

pseudoElement(self, value) ==
    IF self.hasPseudoElement
    THEN Throw(self, DuplicateSelectorPart)
    ELSE ReturnThis([self EXCEPT !.pseudoElementValue = value,
                                 !.hasPseudoElement = TRUE])

\* A faulty variant of combine: the two selectors are stored in the wrong order.
combine_swapped(self, selector1, combinator, selector2) ==
    ReturnThis([self EXCEPT !.selectors = <<selector2, selector1>>,
                            !.combinator = combinator])

combine(self, selector1, combinator, selector2) ==
    ReturnThis([self EXCEPT !.selectors = <<selector1, selector2>>,
                            !.combinator = combinator])

\* The part methods by name.
Method(part, self, value) ==
    CASE part = "element"       -> element(self, value)
      [] part = "id"            -> id(self, value)
      [] part = "class"         -> class(self, value)
      [] part = "attr"          -> attr(self, value)
      [] part = "pseudoClass"   -> pseudoClass(self, value)
      [] part = "pseudoElement" -> pseudoElement(self, value)

\* arr.map((x) => `${open}${x}${close}`).join('')
RECURSIVE MapJoin(_, _, _)
MapJoin(arr, open, close) ==
    IF arr = <<>> THEN ""
    ELSE open \o Head(arr) \o close \o MapJoin(Tail(arr), open, close)

\* The objects stringify() on object n recurses into.
RECURSIVE Closure(_, _, _)
Closure(h, S, k) ==
    IF k = 0 THEN S
    ELSE Closure(h, S \cup UNION {{h[m].selectors[j] : j \in DOMAIN h[m].selectors} : m \in S},
                 k - 1)
Descendants(h, n) ==
    Closure(h, {h[n].selectors[j] : j \in DOMAIN h[n].selectors}, Len(h))
\* stringify() on n never returns: the recursion meets an object again.
Cyclic(h, n) == \E m \in {n} \cup Descendants(h, n) : m \in Descendants(h, m)

\* stringify() on object n of heap h; defined when ~Cyclic(h, n).
RECURSIVE stringify(_, _)
stringify(h, n) ==
    LET self == h[n] IN
    IF Len(self.selectors) # 0
    THEN stringify(h, self.selectors[1]) \o " " \o self.combinator \o " "
            \o stringify(h, self.selectors[2])
    ELSE (IF self.elementValue # "" THEN self.elementValue ELSE "")
      \o (IF self.idValue # "" THEN "#" \o self.idValue ELSE "")
      \o (IF Len(self.classValues) # 0 THEN MapJoin(self.classValues, ".", "") ELSE "")
      \o (IF Len(self.attrValues) # 0 THEN MapJoin(self.attrValues, "[", "]") ELSE "")
      \o (IF Len(self.pseudoClassValues) # 0
          THEN MapJoin(self.pseudoClassValues, ":", "") ELSE "")
      \o (IF self.pseudoElementValue # "" THEN "::" \o self.pseudoElementValue ELSE "")

---------------------------------------------------------------------------
(* Calls. Each action is one call from outside the module: last records it. *)

NoCall == [op |-> "", via |-> "", self |-> 0, args |-> <<>>, thrown |-> "", out |-> ""]

\* this.<part>(value) on the existing object n.
Invoke(n, part, value) ==
    LET r == Method(part, objs[n], value) IN
    /\ objs' = [objs EXCEPT ![n] = r.self]
    /\ hist' = IF r.thrown = ""
               THEN [hist EXCEPT ![n] = Append(@, [part |-> part, value |-> value])]
               ELSE hist
    /\ called' = [called EXCEPT ![n] = @ \cup ({part} \cap Singles)]
    /\ last' = [op |-> part, via |-> "node", self |-> n, args |-> <<>>,
                thrown |-> r.thrown, out |-> ""]
    /\ UNCHANGED <<chained, ticketVars>>

CallElement(n, value) == Invoke(n, "element", value)
CallId(n, value) == Invoke(n, "id", value)
CallClass(n, value) == Invoke(n, "class", value)
CallAttr(n, value) == Invoke(n, "attr", value)
CallPseudoClass(n, value) == Invoke(n, "pseudoClass", value)
CallPseudoElement(n, value) == Invoke(n, "pseudoElement", value)

\* cssSelectorBuilder.<part>(value): new Selector(), then the method on it.
Create(part, value) ==
    LET r == Method(part, NewSelector, value)
        n == Len(objs) + 1 IN
    /\ objs' = Append(objs, r.self)
    /\ hist' = Append(hist, IF r.thrown = "" THEN <<[part |-> part, value |-> value]>>
                            ELSE <<>>)
    /\ called' = Append(called, {part} \cap Singles)
    /\ last' = [op |-> part, via |-> "builder", self |-> n, args |-> <<>>,
                thrown |-> r.thrown, out |-> ""]
    /\ UNCHANGED <<chained, ticketVars>>

builder_element(value) == Create("element", value)
builder_id(value) == Create("id", value)
builder_class(value) == Create("class", value)
builder_attr(value) == Create("attr", value)
builder_pseudoClass(value) == Create("pseudoClass", value)
builder_pseudoElement(value) == Create("pseudoElement", value)

\* A faulty variant of builder_combine: no new Selector(), selector1.combine(...) instead.
builder_combine_reuse(selector1, combinator, selector2) ==
    LET r == combine(objs[selector1], selector1, combinator, selector2) IN
    /\ objs' = [objs EXCEPT ![selector1] = r.self]
    /\ last' = [op |-> "combine", via |-> "builder", self |-> selector1,
                args |-> <<selector1, combinator, selector2>>,
                thrown |-> r.thrown, out |-> ""]
    /\ UNCHANGED <<hist, called, chained, ticketVars>>

\* A faulty variant of builder_combine: selector.combine(selector, ...), the new object
\* passed in place of selector1.
builder_combine_typo(selector1, combinator, selector2) ==
    LET n == Len(objs) + 1
        r == combine(NewSelector, n, combinator, selector2) IN
    /\ objs' = Append(objs, r.self)
    /\ hist' = Append(hist, <<>>)
    /\ called' = Append(called, {})
    /\ last' = [op |-> "combine", via |-> "builder", self |-> n,
                args |-> <<selector1, combinator, selector2>>,
                thrown |-> r.thrown, out |-> ""]
    /\ UNCHANGED <<chained, ticketVars>>

\* cssSelectorBuilder.combine(selector1, combinator, selector2): new Selector(),
\* then combine on it.
builder_combine(selector1, combinator, selector2) ==
    LET r == combine(NewSelector, selector1, combinator, selector2)
        n == Len(objs) + 1 IN
    /\ objs' = Append(objs, r.self)
    /\ hist' = Append(hist, <<>>)
    /\ called' = Append(called, {})
    /\ last' = [op |-> "combine", via |-> "builder", self |-> n,
                args |-> <<selector1, combinator, selector2>>,
                thrown |-> r.thrown, out |-> ""]
    /\ UNCHANGED <<chained, ticketVars>>

\* this.combine(selector1, combinator, selector2) on the existing object n: the
\* method is public on every object the facade returns.
CallCombine(n, selector1, combinator, selector2) ==
    LET r == combine(objs[n], selector1, combinator, selector2) IN
    /\ objs' = [objs EXCEPT ![n] = r.self]
    /\ chained' = chained + 1
    /\ last' = [op |-> "combine", via |-> "node", self |-> n,
                args |-> <<selector1, combinator, selector2>>,
                thrown |-> r.thrown, out |-> ""]
    /\ UNCHANGED <<hist, called, ticketVars>>

\* A faulty variant of Stringify: rendering resets the builder.
Stringify_resets(n) ==
    /\ last' = IF Cyclic(objs, n)
               THEN [op |-> "stringify", via |-> "node", self |-> n, args |-> <<>>,
                     thrown |-> RangeError, out |-> ""]
               ELSE [op |-> "stringify", via |-> "node", self |-> n, args |-> <<>>,
                     thrown |-> "", out |-> stringify(objs, n)]
    /\ objs' = [objs EXCEPT ![n] = NewSelector]
    /\ UNCHANGED <<hist, called, chained, ticketVars>>

\* objs[n].stringify()
Stringify(n) ==
    /\ last' = IF Cyclic(objs, n)
               THEN [op |-> "stringify", via |-> "node", self |-> n, args |-> <<>>,
                     thrown |-> RangeError, out |-> ""]
               ELSE [op |-> "stringify", via |-> "node", self |-> n, args |-> <<>>,
                     thrown |-> "", out |-> stringify(objs, n)]
    /\ UNCHANGED <<objs, hist, called, chained, ticketVars>>

InitTicketsIdle ==
    /\ queue = <<>>
    /\ i = 0
    /\ twentyFives = 0
    /\ fifties = 0
    /\ ret = "idle"

Init ==
    /\ objs = <<>>
    /\ hist = <<>>
    /\ called = <<>>
    /\ chained = 0
    /\ last = NoCall
    /\ InitTicketsIdle

\* One builder chain: the facade creates a node, and the calls that follow are
\* made on it.
Room(n) ==
    Len(objs[n].classValues) + Len(objs[n].attrValues)
        + Len(objs[n].pseudoClassValues) < MaxParts

NextSimple ==
    \/ \E v \in Values : objs = <<>> /\ builder_element(v)
    \/ \E v \in Values : objs = <<>> /\ builder_id(v)
    \/ \E v \in Values : objs = <<>> /\ builder_class(v)
    \/ \E v \in Values : objs = <<>> /\ builder_attr(v)
    \/ \E v \in Values : objs = <<>> /\ builder_pseudoClass(v)
    \/ \E v \in Values : objs = <<>> /\ builder_pseudoElement(v)
    \/ \E n \in DOMAIN objs, v \in Values : CallElement(n, v)
    \/ \E n \in DOMAIN objs, v \in Values : CallId(n, v)
    \/ \E n \in DOMAIN objs, v \in Values : Room(n) /\ CallClass(n, v)
    \/ \E n \in DOMAIN objs, v \in Values : Room(n) /\ CallAttr(n, v)
    \/ \E n \in DOMAIN objs, v \in Values : Room(n) /\ CallPseudoClass(n, v)
    \/ \E n \in DOMAIN objs, v \in Values : CallPseudoElement(n, v)
    \/ \E n \in DOMAIN objs : Stringify(n)

SpecSimple == Init /\ [][NextSimple]_vars

\* Several nodes, built through the facade and combined.
RECURSIVE Total(_)
Total(hs) == IF hs = <<>> THEN 0 ELSE Len(Head(hs)) + Total(Tail(hs))
Size == Len(objs) + Total(hist) + chained
Fits(cost) == Size + cost <= MaxSize

NextFacade ==
    \/ Fits(2) /\ \E v \in Values : builder_element(v)
    \/ Fits(2) /\ \E v \in Values : builder_id(v)
    \/ Fits(2) /\ \E v \in Values : builder_class(v)
    \/ Fits(2) /\ \E v \in Values : builder_attr(v)
    \/ Fits(2) /\ \E v \in Values : builder_pseudoClass(v)
    \/ Fits(2) /\ \E v \in Values : builder_pseudoElement(v)
    \/ Fits(1) /\ \E n \in DOMAIN objs, v \in Values : CallElement(n, v)
    \/ Fits(1) /\ \E n \in DOMAIN objs, v \in Values : CallId(n, v)
    \/ Fits(1) /\ \E n \in DOMAIN objs, v \in Values : CallClass(n, v)
    \/ Fits(1) /\ \E n \in DOMAIN objs, v \in Values : CallAttr(n, v)
    \/ Fits(1) /\ \E n \in DOMAIN objs, v \in Values : CallPseudoClass(n, v)
    \/ Fits(1) /\ \E n \in DOMAIN objs, v \in Values : CallPseudoElement(n, v)
    \/ Fits(1) /\ \E a, b \in DOMAIN objs, c \in Combinators : builder_combine(a, c, b)
    \/ \E n \in DOMAIN objs : Stringify(n)

\* The facade and the six part methods only.
SpecFacade == Init /\ [][NextFacade]_vars

Next ==
    \/ NextFacade
    \/ Fits(1) /\ \E n, a, b \in DOMAIN objs, c \in Combinators : CallCombine(n, a, c, b)

\* Every call the module's objects accept.
Spec == Init /\ [][Next]_vars

---------------------------------------------------------------------------
(* sellTickets(queue) *)

\* A faulty variant of serve: change for 100 is given as three 25s before 50 + 25.
serve_prefersThree(bill, t, f) ==
    IF bill = 25
    THEN [returned |-> "running", twentyFives |-> t + 1, fifties |-> f]
    ELSE IF bill = 50
    THEN IF t = 0
         THEN [returned |-> "false", twentyFives |-> t, fifties |-> f]
         ELSE [returned |-> "running", twentyFives |-> t - 1, fifties |-> f + 1]
    ELSE IF bill = 100
    THEN IF t >= 3
         THEN [returned |-> "running", twentyFives |-> t - 3, fifties |-> f]
         ELSE IF t > 0 /\ f > 0
         THEN [returned |-> "running", twentyFives |-> t - 1, fifties |-> f - 1]
         ELSE [returned |-> "false", twentyFives |-> t, fifties |-> f]
    ELSE [returned |-> "running", twentyFives |-> t, fifties |-> f]

\* One pass of the loop body on bill, with the locals t = twentyFives and
\* f = fifties: the locals afterwards, or the early return of false.
serve(bill, t, f) ==
    IF bill = 25
    THEN [returned |-> "running", twentyFives |-> t + 1, fifties |-> f]
    ELSE IF bill = 50
    THEN IF t = 0
         THEN [returned |-> "false", twentyFives |-> t, fifties |-> f]
         ELSE [returned |-> "running", twentyFives |-> t - 1, fifties |-> f + 1]
    ELSE IF bill = 100
    THEN IF t > 0 /\ f > 0
         THEN [returned |-> "running", twentyFives |-> t - 1, fifties |-> f - 1]
         ELSE IF t >= 3
         THEN [returned |-> "running", twentyFives |-> t - 3, fifties |-> f]
         ELSE [returned |-> "false", twentyFives |-> t, fifties |-> f]
    ELSE [returned |-> "running", twentyFives |-> t, fifties |-> f]

\* for (let i = 0; i < queue.length; i += 1) { ... }
LoopBody ==
    /\ ret = "running"
    /\ i < Len(queue)
    /\ LET r == serve(queue[i + 1], twentyFives, fifties) IN
        /\ ret' = r.returned
        /\ twentyFives' = r.twentyFives
        /\ fifties' = r.fifties
        /\ i' = IF r.returned = "running" THEN i + 1 ELSE i
    /\ UNCHANGED <<queue, selectorVars>>

\* return true, after the loop
ReturnTrue ==
    /\ ret = "running"
    /\ i >= Len(queue)
    /\ ret' = "true"
    /\ UNCHANGED <<queue, i, twentyFives, fifties, selectorVars>>

RECURSIVE Queues(_)
Queues(k) ==
    IF k = 0 THEN {<<>>}
    ELSE LET shorter == Queues(k - 1) IN
         shorter \cup {Append(q, b) : q \in {s \in shorter : Len(s) = k - 1}, b \in Bills}

InitTickets ==
    /\ queue \in Queues(MaxQueue)
    /\ i = 0
    /\ twentyFives = 0
    /\ fifties = 0
    /\ ret = "running"
    /\ objs = <<>>
    /\ hist = <<>>
    /\ called = <<>>
    /\ chained = 0
    /\ last = NoCall

NextTickets == LoopBody \/ ReturnTrue

SpecTickets == InitTickets /\ [][NextTickets]_vars

---------------------------------------------------------------------------
(* The selector claims, read off the histories and the last call. *)

Rank(part) ==
    CASE part = "element"       -> 1
      [] part = "id"            -> 2
      [] part = "class"         -> 3
      [] part = "attr"          -> 4
      [] part = "pseudoClass"   -> 5
      [] part = "pseudoElement" -> 6

\* The categories supplied so far, from the calls that returned normally.
Supplied(hs) == {hs[k].part : k \in DOMAIN hs}

\* The step is a part call on an existing node / that call returned normally.
PartCallOnNode(l) == l.via = "node" /\ l.op \in Parts
Failed(l) == l.thrown \in {DuplicateSelectorPart, OutOfOrder}

\* The error a part method throws on object self ("" when it returns).
Outcome(part, self, value) == Method(part, self, value).thrown

\* C1 as stated: a call of element, id, class, attr or pseudoClass on a node
\* where a strictly later category was already supplied fails with OutOfOrder,
\* and a call whose category is equal to or later than every supplied category
\* is never rejected with OutOfOrder.
C1_OutOfOrderAlways ==
    [][PartCallOnNode(last') =>
        LET p == last'.op
            sup == Supplied(hist[last'.self]) IN
        /\ (p # "pseudoElement" /\ \E q \in sup : Rank(q) > Rank(p))
              => last'.thrown = OutOfOrder
        /\ (\A q \in sup : Rank(p) >= Rank(q)) => last'.thrown # OutOfOrder]_vars

\* C1 amended: as C1, except that element (id) called where element (id) is
\* already set fails with DuplicateSelectorPart even if a later category was
\* supplied: the duplicate check comes first.
C1_OutOfOrderUnlessDuplicate ==
    [][PartCallOnNode(last') =>
        LET p == last'.op
            sup == Supplied(hist[last'.self]) IN
        /\ (p # "pseudoElement" /\ \E q \in sup : Rank(q) > Rank(p))
              => last'.thrown = IF p \in {"element", "id"} /\ p \in sup
                                THEN DuplicateSelectorPart ELSE OutOfOrder
        /\ (\A q \in sup : Rank(p) >= Rank(q)) => last'.thrown # OutOfOrder]_vars

C1_Witness ==
    /\ PartCallOnNode(last)
    /\ last.op = "id"
    /\ last.thrown = OutOfOrder
    /\ "class" \in Supplied(hist[last.self])
    /\ "id" \notin Supplied(hist[last.self])

\* C2 as stated: a second call of element, id or pseudoElement on a node fails
\* with DuplicateSelectorPart whatever was called in between, and class, attr
\* and pseudoClass are never rejected as duplicates.
C2_SecondCallDuplicate ==
    [][PartCallOnNode(last') =>
        /\ (last'.op \in Singles /\ last'.op \in called[last'.self])
              => last'.thrown = DuplicateSelectorPart
        /\ last'.op \notin Singles => last'.thrown # DuplicateSelectorPart]_vars

\* C2 amended: a call of element, id or pseudoElement on a node where an
\* earlier call of it returned normally fails with DuplicateSelectorPart
\* whatever was called in between, and class, attr and pseudoClass are never
\* rejected as duplicates.
C2_SecondSupplyDuplicate ==
    [][PartCallOnNode(last') =>
        /\ (last'.op \in Singles /\ last'.op \in Supplied(hist[last'.self]))
              => last'.thrown = DuplicateSelectorPart
        /\ last'.op \notin Singles => last'.thrown # DuplicateSelectorPart]_vars

C2_Witness ==
    /\ PartCallOnNode(last)
    /\ last.op = "pseudoElement"
    /\ last.thrown = DuplicateSelectorPart
    /\ Len(hist[last.self]) >= 3

\* C3: a part call that fails with DuplicateSelectorPart or OutOfOrder leaves
\* every field of the node as it was, so the node renders as before and every
\* part call on it ends as it would have ended before.
C3_FailedCallChangesNothing ==
    [][(PartCallOnNode(last') /\ Failed(last')) =>
        LET n == last'.self IN
        /\ objs'[n] = objs[n]
        /\ objs' = objs
        /\ stringify(objs', n) = stringify(objs, n)
        /\ \A p \in Parts, v \in Values :
              Outcome(p, objs'[n], v) = Outcome(p, objs[n], v)]_vars

C3_Witness ==
    /\ PartCallOnNode(last)
    /\ last.op = "class"
    /\ last.thrown = OutOfOrder
    /\ Len(objs[last.self].classValues) >= 1
    /\ Len(objs[last.self].attrValues) >= 1

\* The rendering rule of C4, from the calls that returned normally.
ValuesOf(hs, part) ==
    LET es == SelectSeq(hs, LAMBDA e : e.part = part) IN
    [k \in DOMAIN es |-> es[k].value]
RECURSIVE Wrapped(_, _, _)
Wrapped(vs, before, after) ==
    IF vs = <<>> THEN ""
    ELSE before \o Head(vs) \o after \o Wrapped(Tail(vs), before, after)
Rule(hs) ==
    Wrapped(ValuesOf(hs, "element"), "", "")
    \o Wrapped(ValuesOf(hs, "id"), "#", "")
    \o Wrapped(ValuesOf(hs, "class"), ".", "")
    \o Wrapped(ValuesOf(hs, "attr"), "[", "]")
    \o Wrapped(ValuesOf(hs, "pseudoClass"), ":", "")
    \o Wrapped(ValuesOf(hs, "pseudoElement"), "::", "")

\* C4 as stated: a Simple node built by part calls with any string values
\* renders as element, '#' + id, '.' + each class, '[' + each attribute + ']',
\* ':' + each pseudo-class, '::' + pseudoElement, each part present exactly
\* when it was supplied.
C4_RendersByRule ==
    \A n \in DOMAIN objs :
        Len(objs[n].selectors) = 0 => stringify(objs, n) = Rule(hist[n])

\* C7: once a part call would fail on a node, it fails on that node after
\* every later call (successful, failed, or a render).
C7_AllowedSetShrinks ==
    [][\A n \in DOMAIN objs, p \in Parts, v \in Values :
          Outcome(p, objs[n], v) # "" => Outcome(p, objs'[n], v) # ""]_vars

C7_Witness ==
    /\ last.op = "stringify"
    /\ Outcome("attr", objs[last.self], "a") = OutOfOrder
    /\ Outcome("pseudoClass", objs[last.self], "a") = ""

\* The render of node n changed in this step.
RenderChanged(n) == stringify(objs', n) # stringify(objs, n)
\* stringify changes no field, repeats its result, and changes the outcome of
\* no later part call.
RenderIsPure ==
    /\ last'.op = "stringify" =>
          /\ objs' = objs
          /\ \A n \in DOMAIN objs, p \in Parts, v \in Values :
                Outcome(p, objs'[n], v) = Outcome(p, objs[n], v)
    /\ (last.op = "stringify" /\ last'.op = "stringify" /\ last'.self = last.self)
          => last'.out = last.out

\* C8: stringify changes no field, two renders in a row agree, part calls
\* after a render end as they would have before it, and a successful part
\* call changes the next render's output.
C8_RenderPureAndCallsShow ==
    [][/\ RenderIsPure
       /\ (PartCallOnNode(last') /\ last'.thrown = "") => RenderChanged(last'.self)]_vars

\* C5: the node combine(a, c, b) returns renders as the render of a, a space,
\* the token c, a space, the render of b, whatever the token and however
\* deeply a and b are nested.
C5_CombinedRender ==
    (last.op = "combine" /\ last.via = "builder") =>
        (stringify(objs, last.self) =
            stringify(objs, last.args[1]) \o " " \o last.args[2] \o " "
                \o stringify(objs, last.args[3]))

C5_Witness ==
    /\ last.op = "combine"
    /\ last.via = "builder"
    /\ last.args[2] = " "
    /\ Len(objs[last.args[1]].selectors) = 0
    /\ Len(objs[last.args[3]].selectors) # 0
    /\ stringify(objs, last.self) = "a   a + a"

\* combine through the facade never throws, returns an object that did not
\* exist before, and leaves every existing object as it was.
CombineIsFresh ==
    (last'.op = "combine" /\ last'.via = "builder") =>
        /\ last'.thrown = ""
        /\ last'.self \notin DOMAIN objs
        /\ \A m \in DOMAIN objs : objs'[m] = objs[m]

\* C6 as stated: combine never fails, returns a node distinct from every node
\* that existed, leaves a and b unchanged, and no operation turns an existing
\* Simple node into a Combined node.
C6_NoSimpleBecomesCombined ==
    [][/\ CombineIsFresh
       /\ \A m \in DOMAIN objs :
             Len(objs[m].selectors) = 0 => Len(objs'[m].selectors) = 0]_vars

\* C6 amended: as C6, but an existing Simple node does turn into a Combined
\* node when the combine method is called on that node itself; no facade
\* entry point, part call or render does it.
C6_OnlyOwnCombineConverts ==
    [][/\ CombineIsFresh
       /\ \A m \in DOMAIN objs :
             (Len(objs[m].selectors) = 0 /\ Len(objs'[m].selectors) # 0)
                => (last'.op = "combine" /\ last'.via = "node" /\ last'.self = m)]_vars

C6_Witness ==
    /\ last.op = "combine"
    /\ last.via = "builder"
    /\ last.self = 3
    /\ last.args[1] # last.args[3]
    /\ chained = 0

\* C10: with nodes made by the facade and changed by part calls only, no node
\* is reachable from itself through selectors, and every stringify returns.
C10_NoCycle ==
    /\ \A n \in DOMAIN objs : ~Cyclic(objs, n)
    /\ last.op = "stringify" => last.thrown = ""

C10_Witness ==
    /\ last.op = "stringify"
    /\ last.thrown = ""
    /\ Len(objs[last.self].selectors) # 0
    /\ \E k \in DOMAIN objs[last.self].selectors :
          Len(objs[objs[last.self].selectors[k]].selectors) # 0

---------------------------------------------------------------------------
(* The sellTickets claim. *)

\* The seller, holding t bills of 25, f of 50 and h of 100, can serve the
\* customers of q in order, giving each exact change out of the bills held,
\* for some choice of the bills handed back.
RECURSIVE CanServe(_, _, _, _)
CanServe(q, t, f, h) ==
    IF q = <<>> THEN TRUE
    ELSE LET bill == Head(q)
             change == bill - 25 IN
         \E x \in 0..t, y \in 0..f, z \in 0..h :
            /\ 25 * x + 50 * y + 100 * z = change
            /\ CanServe(Tail(q),
                        t - x + (IF bill = 25 THEN 1 ELSE 0),
                        f - y + (IF bill = 50 THEN 1 ELSE 0),
                        h - z + (IF bill = 100 THEN 1 ELSE 0))

\* C9: sellTickets returns true exactly when some way of giving change serves
\* the whole queue, false exactly when none does, and the counts of held 25
\* and 50 bills are never negative.
C9_SellTicketsDecides ==
    /\ twentyFives >= 0
    /\ fifties >= 0
    /\ ret = "true" => CanServe(queue, 0, 0, 0)
    /\ ret = "false" => ~CanServe(queue, 0, 0, 0)

C9_Witness ==
    /\ ret = "true"
    /\ queue = <<25, 25, 25, 25, 50, 100, 50>>

=============================================================================
